---- MODULE Spec2Model ----
(***************************************************************************)
(* Model of the ledger engine of src/blockchain.py: Block, compute_hash,   *)
(* proof_of_work, add_block, is_chain_valid, persistence and reload.       *)
(*                                                                         *)
(* A digest is a sequence of symbols.  sha256 is modelled as             *)
(* collision-free: the digest of a block is PrefixLen scattered symbols    *)
(* (the part the difficulty predicate looks at) followed by an injective   *)
(* encoding of the five hashed fields.  The string "0" used as the genesis *)
(* block's previous_hash is the one-symbol sequence <<0>>.                 *)
(***************************************************************************)
EXTENDS Integers, Sequences, FiniteSets, TLC

VARIABLES chain, difficulty, file, op, ret, inflight

vars == <<chain, difficulty, file, op, ret, inflight>>

\* ---- bounds ----
MaxLen == 3
MaxTime == 2
NData == 1
Base == 2
PrefixLen == 2

\* ---- derived domains ----
RECURSIVE Pow(_, _)
Pow(b, e) == IF e = 0 THEN 1 ELSE b * Pow(b, e - 1)

NonceSpace == Pow(Base, PrefixLen)
Difficulties == 0 .. PrefixLen
Times == 1 .. MaxTime
Payloads == 1 .. NData
GENESIS == 0
Sentinel == <<0>>
Fields == {"index", "timestamp", "data", "previous_hash", "nonce"}

Last(s) == s[Len(s)]

\* ---- digest ----
\* a cheap stand-in for the way sha256 scatters its input over the leading symbols
Mix(b) ==
    3 * b.index + 5 * b.timestamp + 7 * b.data
        + Len(b.previous_hash) + 2 * b.previous_hash[1] + Last(b.previous_hash)

PrefixValue(b) == (Mix(b) + (NonceSpace - 1) * b.nonce) % NonceSpace

Digits(v) == [i \in 1 .. PrefixLen |-> (v \div Pow(Base, PrefixLen - i)) % Base]

compute_hash(b) ==
    Digits(PrefixValue(b)) \o <<b.index, b.timestamp, b.data, b.nonce>> \o b.previous_hash

\* str.startswith('0' * d)
startswith_zeros(h, d) == Len(h) >= d /\ \A i \in 1 .. d : h[i] = 0

\* Block.__init__
Block(index, timestamp, data, previous_hash, nonce) ==
    LET f == [index |-> index, timestamp |-> timestamp, data |-> data,
              previous_hash |-> previous_hash, nonce |-> nonce]
    IN  [index |-> index, timestamp |-> timestamp, data |-> data,
         previous_hash |-> previous_hash, nonce |-> nonce, hash |-> compute_hash(f)]

\* ---- proof of work ----
RECURSIVE pow_loop(_, _, _)
pow_loop(block, computed, d) ==
    IF startswith_zeros(computed, d)
    THEN [block EXCEPT !.hash = computed]
    ELSE LET b2 == [block EXCEPT !.nonce = @ + 1]
         IN  pow_loop(b2, compute_hash(b2), d)

\* variants of proof_of_work with a slip in it
proof_of_work_stale_hash(block, d) ==
    [pow_loop(block, compute_hash(block), d) EXCEPT !.hash = block.hash]

proof_of_work_one_short(block, d) ==
    pow_loop(block, compute_hash(block), IF d > 0 THEN d - 1 ELSE 0)

proof_of_work_do_while(block, d) ==
    LET b2 == [block EXCEPT !.nonce = @ + 1]
    IN  pow_loop(b2, compute_hash(b2), d)

proof_of_work(block, d) == pow_loop(block, compute_hash(block), d)

\* ---- ledger operations as functions of the ledger state ----
to_list(ch) ==
    [i \in 1 .. Len(ch) |->
        [index |-> ch[i].index, timestamp |-> ch[i].timestamp, data |-> ch[i].data,
         previous_hash |-> ch[i].previous_hash, nonce |-> ch[i].nonce, hash |-> ch[i].hash]]

WriteOutcomes == {"ok", "fail_open", "fail_torn"}

\* save_chain: the new content of the persisted file; a failure is swallowed
save_chain(ch, f, wr) ==
    CASE wr = "ok" -> [state |-> "written", recs |-> to_list(ch)]
      [] wr = "fail_open" -> f
      [] wr = "fail_torn" -> [state |-> "torn", recs |-> <<>>]

Required == {"index", "timestamp", "data", "previous_hash"}

\* variants of the record reconstruction with a slip in it
load_item_drop_nonce(item) ==
    LET b == Block(item.index, item.timestamp, item.data, item.previous_hash, 0)
    IN  [b EXCEPT !.hash = IF "hash" \in DOMAIN item THEN item.hash ELSE b.hash]

load_item_rehash(item) ==
    Block(item.index, item.timestamp, item.data, item.previous_hash,
          IF "nonce" \in DOMAIN item THEN item.nonce ELSE 0)

load_item(item) ==
    LET b == Block(item.index, item.timestamp, item.data, item.previous_hash,
                   IF "nonce" \in DOMAIN item THEN item.nonce ELSE 0)
    IN  [b EXCEPT !.hash = IF "hash" \in DOMAIN item THEN item.hash ELSE b.hash]

load_ok(f) ==
    f.state = "written" /\ \A i \in 1 .. Len(f.recs) : Required \subseteq DOMAIN f.recs[i]

load_chain(f) == [i \in 1 .. Len(f.recs) |-> load_item(f.recs[i])]

create_genesis_block(ts) == <<Block(0, ts, GENESIS, Sentinel, 0)>>

\* variant of the constructor whose fallback forgets to persist the genesis block
Blockchain_init_no_save(f, ts, wr) ==
    IF f.state # "absent" /\ load_ok(f)
    THEN [chain |-> load_chain(f), file |-> f, saved |-> "none"]
    ELSE [chain |-> create_genesis_block(ts), file |-> f, saved |-> wr]

\* Blockchain.__init__: the chain and the file after construction, and the
\* outcome of the write when create_genesis_block had to save
Blockchain_init(f, ts, wr) ==
    IF f.state # "absent" /\ load_ok(f)
    THEN [chain |-> load_chain(f), file |-> f, saved |-> "none"]
    ELSE LET g == create_genesis_block(ts)
         IN  [chain |-> g, file |-> save_chain(g, f, wr), saved |-> wr]

\* variants of the candidate construction with a slip in it
candidate_wrong_link(prev, ts, data) == Block(prev.index + 1, ts, data, prev.previous_hash, 0)

candidate_same_index(prev, ts, data) == Block(prev.index, ts, data, prev.hash, 0)

\* add_block, lines 58-60: the unsealed block linked to the tail
candidate(prev, ts, data) == Block(prev.index + 1, ts, data, prev.hash, 0)

\* is_chain_valid: the loop from position 1 (here 2) with its two early returns
RECURSIVE valid_from(_, _)
valid_from(ch, i) ==
    IF i > Len(ch) THEN TRUE
    ELSE IF ch[i].previous_hash # ch[i - 1].hash THEN FALSE
    ELSE IF compute_hash(ch[i]) # ch[i].hash THEN FALSE
    ELSE valid_from(ch, i + 1)

\* variants of is_chain_valid with a slip in it
is_chain_valid_first_only(ch) ==
    IF 2 > Len(ch) THEN TRUE
    ELSE IF ch[2].previous_hash # ch[1].hash THEN FALSE
    ELSE IF compute_hash(ch[2]) # ch[2].hash THEN FALSE
    ELSE TRUE

is_chain_valid_no_link(ch) == \A i \in 2 .. Len(ch) : compute_hash(ch[i]) = ch[i].hash

is_chain_valid(ch) == valid_from(ch, 2)

\* variant of get_all_events that does not skip the genesis block
get_all_events_with_genesis(ch) ==
    [i \in 1 .. Len(ch) |->
        [block_index |-> ch[i].index, timestamp |-> ch[i].timestamp,
         data |-> ch[i].data, hash |-> ch[i].hash,
         previous_hash |-> ch[i].previous_hash]]

get_all_events(ch) ==
    [i \in 1 .. Len(ch) - 1 |->
        [block_index |-> ch[i + 1].index, timestamp |-> ch[i + 1].timestamp,
         data |-> ch[i + 1].data, hash |-> ch[i + 1].hash,
         previous_hash |-> ch[i + 1].previous_hash]]

\* variant of the append that overwrites the tail
append_over_tail(ch, block) ==
    IF Len(ch) > 1 THEN [ch EXCEPT ![Len(ch)] = block] ELSE Append(ch, block)

\* add_block, line 62: self.chain.append(block)
append(ch, block) == Append(ch, block)

NoFile == [state |-> "absent", recs |-> <<>>]
NoRet == [kind |-> "none"]

\* the request handlers that share the module-level ledger, and what a
\* handler inside add_block holds in its locals
Handlers == {"h1", "h2"}
Idle == [pc |-> "idle"]

\* ---- state machine ----
Init ==
    \E d \in Difficulties, ts \in Times :
        LET l == Blockchain_init(NoFile, ts, "ok")
        IN  /\ difficulty = d
            /\ chain = l.chain
            /\ file = l.file
            /\ op = "init"
            /\ ret = NoRet
            /\ inflight = [h \in Handlers |-> Idle]

\* add_block run from call to return; on an empty chain line 58 raises IndexError
AddBlock(wr) ==
    /\ Len(chain) < MaxLen
    /\ IF Len(chain) = 0 THEN TRUE ELSE Last(chain).index + 1 < MaxLen
    /\ IF Len(chain) = 0
       THEN /\ ret' = [kind |-> "raised", exc |-> "IndexError", wr |-> wr]
            /\ UNCHANGED <<chain, file>>
       ELSE \E ts \in Times, data \in Payloads :
            LET block == proof_of_work(candidate(Last(chain), ts, data), difficulty)
                ch2 == append(chain, block)
            IN  /\ chain' = ch2
                /\ file' = save_chain(ch2, file, wr)
                /\ ret' = [kind |-> "block", val |-> block, wr |-> wr]
    /\ op' = "add_block"
    /\ UNCHANGED <<difficulty, inflight>>

Reload(wr) ==
    /\ \E ts \in Times :
        LET l == Blockchain_init(file, ts, wr)
        IN  /\ chain' = l.chain
            /\ file' = l.file
            /\ ret' = [kind |-> "constructed", saved |-> l.saved]
    /\ op' = "reload"
    /\ UNCHANGED <<difficulty, inflight>>

SaveChain(wr) ==
    /\ file' = save_chain(chain, file, wr)
    /\ op' = "save_chain"
    /\ ret' = [kind |-> "saved", wr |-> wr]
    /\ UNCHANGED <<chain, difficulty, inflight>>

IsChainValid ==
    /\ op' = "is_chain_valid"
    /\ ret' = [kind |-> "bool", val |-> is_chain_valid(chain)]
    /\ UNCHANGED <<chain, difficulty, file, inflight>>

\* a variant of get_all_events that consumes the genesis block
GetAllEvents_consuming ==
    /\ op' = "get_all_events"
    /\ ret' = [kind |-> "events", val |-> get_all_events(chain)]
    /\ chain' = IF Len(chain) > 0 THEN Tail(chain) ELSE chain
    /\ UNCHANGED <<difficulty, file, inflight>>

GetAllEvents ==
    /\ op' = "get_all_events"
    /\ ret' = [kind |-> "events", val |-> get_all_events(chain)]
    /\ UNCHANGED <<chain, difficulty, file, inflight>>

ToList ==
    /\ op' = "to_list"
    /\ ret' = [kind |-> "list", val |-> to_list(chain)]
    /\ UNCHANGED <<chain, difficulty, file, inflight>>

Next ==
    \/ AddBlock("ok")
    \/ Reload("ok")
    \/ SaveChain("ok")
    \/ IsChainValid
    \/ GetAllEvents
    \/ ToList

Spec == Init /\ [][Next]_vars

\* ---- storage that can fail a write ----
NextIO ==
    \E wr \in WriteOutcomes :
        \/ AddBlock(wr)
        \/ Reload(wr)
        \/ SaveChain(wr)
        \/ IsChainValid
        \/ GetAllEvents
        \/ ToList

SpecIO == Init /\ [][NextIO]_vars

\* ---- an outside party editing the blocks in memory ----
Honest(ch) ==
    /\ Len(ch) >= 1
    /\ \A i \in 1 .. Len(ch) : ch[i].hash = compute_hash(ch[i])
    /\ \A i \in 2 .. Len(ch) : ch[i].previous_hash = ch[i - 1].hash

FieldDomain(f, ch) ==
    CASE f = "index" -> 0 .. MaxLen
      [] f = "timestamp" -> Times
      [] f = "data" -> 0 .. NData
      [] f = "nonce" -> 0 .. NonceSpace - 1
      [] f = "previous_hash" -> {Sentinel} \cup {ch[j].hash : j \in 1 .. Len(ch)}

TamperMem ==
    /\ Honest(chain)
    /\ \E i \in 1 .. Len(chain), f \in Fields :
        \E v \in FieldDomain(f, chain) :
            /\ v # chain[i][f]
            /\ chain' = [chain EXCEPT ![i][f] = v]
            /\ ret' = [kind |-> "tamper", pos |-> i, field |-> f]
    /\ op' = "tamper_mem"
    /\ UNCHANGED <<difficulty, file, inflight>>

NextMem ==
    \/ AddBlock("ok")
    \/ Reload("ok")
    \/ SaveChain("ok")
    \/ TamperMem

SpecMem == Init /\ [][NextMem]_vars

\* ---- an outside party editing a payload in the persisted file ----
TamperFile ==
    /\ file.state = "written"
    /\ file.recs = to_list(chain)
    /\ Honest(chain)
    /\ \E i \in 1 .. Len(file.recs), v \in 0 .. NData :
        /\ v # file.recs[i].data
        /\ file' = [file EXCEPT !.recs[i].data = v]
        /\ ret' = [kind |-> "tamper", pos |-> i, field |-> "data"]
    /\ op' = "tamper_file"
    /\ UNCHANGED <<chain, difficulty, inflight>>

NextFile ==
    \/ AddBlock("ok")
    \/ Reload("ok")
    \/ TamperFile

SpecFile == Init /\ [][NextFile]_vars

\* ---- an outside party removing a record, or a field of a record, from the file ----
\* an honest chain that starts with a genesis block
Pristine(ch) == Honest(ch) /\ ch[1].index = 0 /\ ch[1].previous_hash = Sentinel

DropRecord ==
    /\ file.state = "written"
    /\ file.recs = to_list(chain)
    /\ Pristine(chain)
    /\ \E i \in 1 .. Len(file.recs) :
        /\ file' = [file EXCEPT !.recs = SubSeq(@, 1, i - 1) \o SubSeq(@, i + 1, Len(@))]
        /\ ret' = [kind |-> "tamper", pos |-> i, field |-> "record"]
    /\ op' = "edit_file"
    /\ UNCHANGED <<chain, difficulty, inflight>>

DropField(K) ==
    /\ file.state = "written"
    /\ file.recs = to_list(chain)
    /\ Pristine(chain)
    /\ \E i \in 1 .. Len(file.recs), k \in K :
        /\ file' = [file EXCEPT !.recs[i] = [x \in (DOMAIN @) \ {k} |-> @[x]]]
        /\ ret' = [kind |-> "tamper", pos |-> i, field |-> k]
    /\ op' = "edit_file"
    /\ UNCHANGED <<chain, difficulty, inflight>>

NextEdit ==
    \/ AddBlock("ok")
    \/ Reload("ok")
    \/ DropRecord
    \/ DropField({"nonce"})
    \/ IsChainValid

SpecEdit == Init /\ [][NextEdit]_vars

\* ---- a damaged file and a storage that can fail the write ----
NextLoad ==
    \/ AddBlock("ok")
    \/ \E wr \in WriteOutcomes : Reload(wr)
    \/ DropField({"index"})

SpecLoad == Init /\ [][NextLoad]_vars

\* ---- the process is killed inside save_chain and started again ----
\* where the write of line 88-89 was cut: before open() truncated the file,
\* after the truncation and before the dump was complete, or after the dump
CutPoints == {"before_open", "torn", "complete"}

InterruptedAppend ==
    /\ Len(chain) >= 1
    /\ Len(chain) < MaxLen
    /\ \E ts \in Times, data \in Payloads, cut \in CutPoints, ts2 \in Times :
        LET block == proof_of_work(candidate(Last(chain), ts, data), difficulty)
            ch2 == append(chain, block)
            left == CASE cut = "before_open" -> file
                      [] cut = "torn" -> [state |-> "torn", recs |-> <<>>]
                      [] cut = "complete" -> [state |-> "written", recs |-> to_list(ch2)]
            l == Blockchain_init(left, ts2, "ok")
        IN  /\ chain' = l.chain
            /\ file' = l.file
            /\ ret' = [kind |-> "constructed", saved |-> l.saved, cut |-> cut]
    /\ op' = "crash_restart"
    /\ UNCHANGED <<difficulty, inflight>>

NextCrash ==
    \/ AddBlock("ok")
    \/ Reload("ok")
    \/ InterruptedAppend

SpecCrash == Init /\ [][NextCrash]_vars

\* ---- two request handlers inside add_block at the same time ----
\* variant of the loop body that takes a new timestamp with every try
pow_iter_restamp(block) ==
    [block EXCEPT !.nonce = @ + 1, !.timestamp = (@ % MaxTime) + 1]

\* proof_of_work, line 52: block.nonce += 1
pow_iter(block) == [block EXCEPT !.nonce = @ + 1]

\* variant of the first lines of add_block that puts the block in the chain before it is sealed
Begin_append_early(h) ==
    /\ inflight[h].pc = "idle"
    /\ Len(chain) >= 1
    /\ Len(chain) + Cardinality(Handlers) <= MaxLen
    /\ \E ts \in Times, data \in Payloads :
        LET block == candidate(Last(chain), ts, data)
        IN  /\ inflight' = [inflight EXCEPT ![h] =
                    [pc |-> "pow", block |-> block, computed |-> compute_hash(block)]]
            /\ chain' = append(chain, block)
    /\ UNCHANGED <<difficulty, file, op, ret>>

\* add_block lines 58-60 and proof_of_work line 49
Begin(h) ==
    /\ inflight[h].pc = "idle"
    /\ Len(chain) >= 1
    /\ Len(chain) + Cardinality(Handlers) <= MaxLen
    /\ \E ts \in Times, data \in Payloads :
        LET block == candidate(Last(chain), ts, data)
        IN  inflight' = [inflight EXCEPT ![h] =
                [pc |-> "pow", block |-> block, computed |-> compute_hash(block)]]
    /\ UNCHANGED <<chain, difficulty, file, op, ret>>

\* proof_of_work: one test of the loop condition (line 51), then either one
\* run of the body (lines 52-53) or the exit (line 54)
PowStep(h) ==
    /\ inflight[h].pc = "pow"
    /\ IF startswith_zeros(inflight[h].computed, difficulty)
       THEN inflight' = [inflight EXCEPT ![h] =
                [pc |-> "sealed", block |-> [@.block EXCEPT !.hash = inflight[h].computed],
                 computed |-> @.computed]]
       ELSE LET b2 == pow_iter(inflight[h].block)
            IN  inflight' = [inflight EXCEPT ![h] =
                    [pc |-> "pow", block |-> b2, computed |-> compute_hash(b2)]]
    /\ UNCHANGED <<chain, difficulty, file, op, ret>>

\* add_block line 62
AppendStep(h) ==
    /\ inflight[h].pc = "sealed"
    /\ chain' = append(chain, inflight[h].block)
    /\ inflight' = [inflight EXCEPT ![h].pc = "appended"]
    /\ UNCHANGED <<difficulty, file, op, ret>>

\* add_block lines 63-64
SaveStep(h) ==
    /\ inflight[h].pc = "appended"
    /\ file' = save_chain(chain, file, "ok")
    /\ ret' = [kind |-> "block", val |-> inflight[h].block, wr |-> "ok"]
    /\ op' = "add_block"
    /\ inflight' = [inflight EXCEPT ![h] = Idle]
    /\ UNCHANGED <<chain, difficulty>>

NextConc ==
    \/ \E h \in Handlers : Begin(h)
    \/ \E h \in Handlers : PowStep(h)
    \/ \E h \in Handlers : AppendStep(h)
    \/ \E h \in Handlers : SaveStep(h)
    \/ IsChainValid

\* the ledger of the running server, created at the first clock reading
InitConc == Init /\ chain[1].timestamp = 1

SpecConc == InitConc /\ [][NextConc]_vars

\* the file is a file an honest ledger wrote after at least one append, but
\* for the data of one non-genesis record
OneDataEdit(f) ==
    /\ f.state = "written"
    /\ \A j \in 1 .. Len(f.recs) : DOMAIN f.recs[j] = Fields \cup {"hash"}
    /\ LET r == f.recs
           good == {j \in 1 .. Len(r) : r[j].hash = compute_hash(r[j])}
       IN  /\ \A j \in 2 .. Len(r) : r[j].previous_hash = r[j - 1].hash
           /\ \E i \in 2 .. Len(r) :
                /\ good = (1 .. Len(r)) \ {i}
                /\ \E v \in 0 .. NData : r[i].hash = compute_hash([r[i] EXCEPT !.data = v])

\* ==== claims ====

\* C1: every add_block appends and returns a block whose previous_hash is
\* the hash of the block that was the tail just before the call, and so in
\* every state reached by sequential add_block calls each block's
\* previous_hash equals the hash of the block before it.
C1_Linkage ==
    /\ [](\A i \in 2 .. Len(chain) : chain[i].previous_hash = chain[i - 1].hash)
    /\ [][op' = "add_block" =>
            /\ ret'.val.previous_hash = Last(chain).hash
            /\ chain' = Append(chain, ret'.val)]_vars

C1_Witness == op = "add_block" /\ Len(chain) = 3 /\ chain[3].previous_hash = chain[2].hash

\* C2 (as claimed): changing one field of any block of an honest chain, the
\* genesis block included, and leaving its stored hash alone makes
\* is_chain_valid() return false.
C2_Claim ==
    [][(op' = "tamper_mem" /\ Honest(chain)) => ~is_chain_valid(chain')]_vars

\* C3: when the persisted file is a file an honest ledger wrote but for the
\* data of one non-genesis record, constructing a Blockchain from it adopts
\* the records of the file as they are and is_chain_valid() is false.
C3_EditedFileDetected ==
    [][(op' = "reload" /\ OneDataEdit(file)) =>
            /\ to_list(chain') = file.recs
            /\ file' = file
            /\ ~is_chain_valid(chain')]_vars

C3_Witness ==
    /\ op = "reload"
    /\ OneDataEdit(file)
    /\ to_list(chain) = file.recs
    /\ ~is_chain_valid(chain)

\* C4: in every state reached by add_block calls and reloads of the
\* unmodified file, every block's stored hash (the genesis block's too) is
\* the hash compute_hash() gives for its five fields.
C4_SelfConsistent ==
    \A i \in 1 .. Len(chain) : chain[i].hash = compute_hash(chain[i])

C4_Witness ==
    /\ op = "reload"
    /\ Len(chain) >= 2
    /\ Last(chain).nonce > 0
    /\ Last(chain).hash = compute_hash(Last(chain))

\* C5 (as claimed): a freshly created ledger holds exactly one genesis block
\* with index 0 and previous_hash "0" whose hash starts with `difficulty`
\* zero symbols.
C5_Claim ==
    op = "init" =>
        /\ Len(chain) = 1
        /\ chain[1].index = 0
        /\ chain[1].previous_hash = Sentinel
        /\ startswith_zeros(chain[1].hash, difficulty)

\* C6: for every difficulty, the stored hash of every block appended by
\* add_block starts with `difficulty` zero symbols, when it is appended and
\* in every later state.
C6_Sealed ==
    \A i \in 2 .. Len(chain) : startswith_zeros(chain[i].hash, difficulty)

C6_Witness ==
    /\ difficulty = PrefixLen
    /\ Len(chain) >= 2
    /\ chain[2].nonce > 0
    /\ startswith_zeros(chain[2].hash, PrefixLen)

\* the hash of block b when its nonce is n
HashAt(b, n) == compute_hash([b EXCEPT !.nonce = n])

\* C7: the block add_block returns carries the smallest non-negative nonce
\* whose hash starts with `difficulty` zero symbols (so the result is fixed
\* by the block's contents and the difficulty), and nonce 0 at difficulty 0.
C7_SmallestNonce ==
    op = "add_block" =>
        /\ ret.val.nonce >= 0
        /\ startswith_zeros(HashAt(ret.val, ret.val.nonce), difficulty)
        /\ \A n \in 0 .. ret.val.nonce - 1 : ~startswith_zeros(HashAt(ret.val, n), difficulty)
        /\ (difficulty = 0 => ret.val.nonce = 0)

C7_Witness ==
    /\ op = "add_block"
    /\ ret.val.nonce >= 2
    /\ ~startswith_zeros(HashAt(ret.val, 0), difficulty)

\* C8: in every state reached by sequential add_block calls the block at
\* chain position i has index i (positions counted from 0).
C8_Indices ==
    \A i \in 1 .. Len(chain) : chain[i].index = i - 1

C8_Witness == Len(chain) = 3 /\ chain[3].index = 2 /\ op = "add_block"

\* C9: constructing a Blockchain from the file save_chain wrote for the
\* current chain gives a ledger with the same is_chain_valid() result and
\* the same get_all_events() output.
C9_RoundTrip ==
    [][(op' = "reload" /\ file = save_chain(chain, file, "ok")) =>
            /\ is_chain_valid(chain') = is_chain_valid(chain)
            /\ get_all_events(chain') = get_all_events(chain)]_vars

C9_Witness ==
    /\ op = "reload"
    /\ Len(chain) = 3
    /\ \E i \in 2 .. 3 : chain[i].nonce > 0
    /\ Len(get_all_events(chain)) = 2

\* C10 (as claimed): when add_block returns to its caller without an
\* exception, the persisted file holds exactly to_list() of the chain in
\* memory.
C10_Claim ==
    (op = "add_block" /\ ret.kind = "block") =>
        (file.state = "written" /\ file.recs = to_list(chain))


IsPrefix(a, b) == Len(a) <= Len(b) /\ \A i \in 1 .. Len(a) : a[i] = b[i]

\* C11: a fresh ledger has one block, every add_block adds exactly one and
\* nothing else changes the length, so after N calls the chain has N + 1
\* blocks; get_all_events() then returns N records, the i-th with
\* block_index i and the timestamp, data, hash and previous_hash of the
\* block at position i.
C11_Events ==
    /\ [](op = "init" => Len(chain) = 1)
    /\ [][Len(chain') = IF op' = "add_block" THEN Len(chain) + 1 ELSE Len(chain)]_vars
    /\ [](LET ev == get_all_events(chain)
          IN  /\ Len(ev) = Len(chain) - 1
              /\ \A i \in 1 .. Len(ev) :
                    /\ ev[i].block_index = i
                    /\ ev[i].timestamp = chain[i + 1].timestamp
                    /\ ev[i].data = chain[i + 1].data
                    /\ ev[i].hash = chain[i + 1].hash
                    /\ ev[i].previous_hash = chain[i + 1].previous_hash)
    /\ [](ret.kind = "events" => ret.val = get_all_events(chain))

C11_Witness ==
    /\ op = "get_all_events"
    /\ Len(chain) = 3
    /\ Len(ret.val) = 2
    /\ ret.val[1].block_index = 1
    /\ ret.val[2].block_index = 2

\* C13: get_all_events(), to_list() and is_chain_valid() leave the chain,
\* the difficulty and the persisted file as they were, and a second
\* get_all_events() with no add_block in between returns what the first did.
C13_ReadsChangeNothing ==
    /\ [][op' \in {"get_all_events", "to_list", "is_chain_valid"} =>
            UNCHANGED <<chain, difficulty, file>>]_vars
    /\ [][(ret.kind = "events" /\ op' # "add_block") =>
            get_all_events(chain') = ret.val]_vars
    /\ [][(op = "get_all_events" /\ op' = "get_all_events") => ret'.val = ret.val]_vars

C13_Witness ==
    /\ op = "get_all_events"
    /\ Len(chain) >= 2
    /\ ret.val = get_all_events(chain)
    /\ file.recs = to_list(chain)

\* C14: add_block grows the chain by exactly one block and leaves the blocks
\* already there in place, and no operation on a constructed ledger removes
\* or reorders blocks: the chain before a step is a prefix of the chain
\* after it.
C14_AppendOnly ==
    /\ [][op' = "add_block" =>
            (Len(chain') = Len(chain) + 1 /\ IsPrefix(chain, chain'))]_vars
    /\ [][op' # "reload" => IsPrefix(chain, chain')]_vars

C14_Witness ==
    /\ op = "add_block"
    /\ Len(chain) = 3
    /\ ret.val = chain[3]
    /\ chain[2].index = 1


\* C12: is_chain_valid() returns true exactly when every block after the
\* first links to the hash of the block before it and stores the hash of
\* its own fields; in particular it is true for an empty and for a
\* one-block chain, and the difficulty plays no part in the result.
C12_ValidExactly ==
    ret.kind = "bool" =>
        /\ ret.val = (\A i \in 2 .. Len(chain) :
                        /\ chain[i].previous_hash = chain[i - 1].hash
                        /\ chain[i].hash = compute_hash(chain[i]))
        /\ (Len(chain) <= 1 => ret.val)

C12_Witness ==
    /\ op = "is_chain_valid"
    /\ ret.val = FALSE
    /\ Len(chain) = 3
    /\ chain[2].previous_hash = chain[1].hash
    /\ chain[2].hash = compute_hash(chain[2])
    /\ ~startswith_zeros(chain[1].hash, difficulty)

\* the persisted file exists and load_chain raises on it
LoadFails(f) ==
    \/ f.state = "torn"
    \/ f.state = "written" /\ \E i \in 1 .. Len(f.recs) : ~(Required \subseteq DOMAIN f.recs[i])

IsGenesis(b) ==
    /\ b.index = 0
    /\ b.data = GENESIS
    /\ b.previous_hash = Sentinel
    /\ b.nonce = 0
    /\ b.hash = compute_hash(b)

C18_Claim ==
    [][op' = "crash_restart" =>
            IsPrefix(file.recs, to_list(chain'))]_vars

\* C19 (as claimed): after construction from a parseable file and ever
\* after, the chain is non-empty and starts with a genesis block, and
\* add_block finds a tail to link to.
C19_Claim ==
    /\ Len(chain) >= 1
    /\ chain[1].index = 0
    /\ chain[1].previous_hash = Sentinel
    /\ ret.kind # "raised"


\* two blocks of the list claim the same index and the same predecessor
Raced(ch) ==
    \E i \in 2 .. Len(ch), j \in 2 .. Len(ch) :
        i < j /\ ch[i].index = ch[j].index /\ ch[i].previous_hash = ch[j].previous_hash

\* C16: when two add_block calls that were not serialized have both built on
\* the same tail, the chain holds two blocks with the same index and the
\* same previous_hash; in every such state some block's index is not its
\* position, some block does not link to the block before it, and
\* is_chain_valid() returns false.
C16_RaceBreaksChain ==
    Raced(chain) =>
        /\ \E i \in 1 .. Len(chain) : chain[i].index # i - 1
        /\ \E i \in 2 .. Len(chain) : chain[i].previous_hash # chain[i - 1].hash
        /\ ~is_chain_valid(chain)

\* C16 witness: both handlers have returned from add_block and left two
\* blocks built on the same tail in a chain that fails validation.
C16_Witness ==
    /\ Raced(chain)
    /\ ~is_chain_valid(chain)
    /\ \A h \in Handlers : inflight[h].pc = "idle"
    /\ op = "add_block"

\* C17: at every step, with add_block calls in progress, every block in
\* the chain after the step carries a hash that is the digest of its
\* fields with its nonce and meets the difficulty, and no block already in
\* the chain is changed or removed by the step.
C17_OnlySealedVisible ==
    [][/\ \A i \in 2 .. Len(chain') :
              /\ chain'[i].hash = compute_hash(chain'[i])
              /\ startswith_zeros(chain'[i].hash, difficulty')
       /\ IsPrefix(chain, chain')]_vars

\* C17 witness: is_chain_valid has just read a chain of two or more blocks
\* while a handler is in the middle of its nonce search for a block that
\* is not in the chain.
C17_Witness ==
    /\ op = "is_chain_valid"
    /\ Len(chain) >= 2
    /\ \E h \in Handlers :
          /\ inflight[h].pc = "pow"
          /\ inflight[h].block.nonce > 0
          /\ \A i \in 1 .. Len(chain) : chain[i] # inflight[h].block

\* C20: the candidate is built on the tail with nonce 0; every step of the
\* search leaves its index, timestamp, data and previous_hash as they are
\* and leaves the chain, the difficulty and the file alone; the block
\* appended is the block the search ended with.
C20_OnlyNonceAndHash ==
    [][\A h \in Handlers :
        /\ (inflight[h].pc = "idle" /\ inflight'[h].pc = "pow") =>
              /\ inflight'[h].block.index = Last(chain).index + 1
              /\ inflight'[h].block.previous_hash = Last(chain).hash
              /\ inflight'[h].block.nonce = 0
        /\ (inflight[h].pc = "pow" /\ inflight'[h] # inflight[h]) =>
              /\ inflight'[h].pc \in {"pow", "sealed"}
              /\ inflight'[h].block.index = inflight[h].block.index
              /\ inflight'[h].block.timestamp = inflight[h].block.timestamp
              /\ inflight'[h].block.data = inflight[h].block.data
              /\ inflight'[h].block.previous_hash = inflight[h].block.previous_hash
              /\ UNCHANGED <<chain, difficulty, file>>
        /\ (inflight[h].pc = "sealed" /\ inflight'[h].pc = "appended") =>
              /\ inflight'[h].block = inflight[h].block
              /\ chain' = Append(chain, inflight[h].block)]_vars

\* C20 witness: a block whose search took at least one nonce step has
\* just been appended.
C20_Witness ==
    \E h \in Handlers :
        /\ inflight[h].pc = "appended"
        /\ inflight[h].block.nonce > 0
        /\ Last(chain) = inflight[h].block

====
